---- MODULE Spec2Model ----
(***************************************************************************)
(* OneDrive-Sync: the Obsidian plugin (main.ts), its OneDrive client       *)
(* (src/clients/onedriveClient.ts) and its settings tab.                   *)
(*                                                                         *)
(* Every handler is an async function of a single-threaded event loop: it  *)
(* runs without interruption up to its next network round trip or local    *)
(* file read.  An action of this module is one such run: from the arrival  *)
(* of the awaited answer to the next awaited request.                      *)
(*                                                                         *)
(* Strings that the code cuts (paths) are sequences of characters; a time  *)
(* unit is one minute (60000 ms of Date.now()).                            *)
(***************************************************************************)
EXTENDS Integers, Sequences, FiniteSets, TLC

\* ------------------------------------------------------------------ bounds
MaxTime     == 1    \* minutes that pass in one behaviour
MaxChunk    == 3    \* CHUNK_SIZE ranges over 1..MaxChunk
MaxSize     == 6    \* the largest file of the vault, in bytes
MaxNodes    == 4    \* the files and folders under the local root, in SpecWalk

\* ------------------------------------------------------- program constants
SafetyMargin   == 2     \* 120000 ms
DefaultExpires == 60    \* 3600 s

NONE == "none"          \* undefined / null

\* The Sync() triggers of a behaviour: each is one call of syncVault, and the
\* second may come while the first is awaiting an answer, or after it ended.
Passes == {1, 2}

Min(a, b) == IF a < b THEN a ELSE b

\* ------------------------------------------------------------------- vault
File(path, size)       == [kind |-> "file", path |-> path, size |-> size, children |-> <<>>]
Folder(path, children) == [kind |-> "folder", path |-> path, size |-> 0, children |-> children]

PathRoot == <<"/">>     \* the path of the vault's root folder
PathV   == <<"V">>
PathVa  == <<"V", "/", "a">>
PathVs  == <<"V", "/", "s">>
PathVsb == <<"V", "/", "s", "/", "b">>
PathVe  == <<"V", "/", "e">>
PathN   == <<"n">>
PathX   == <<"X">>

\* The vaults of the model: the root folder of each.  PathN is a file at the top
\* of the vault, PathX is in no vault.
VaultWith(sa, sb) ==
    Folder(PathRoot, << Folder(PathV, << File(PathVa, sa),
                                     Folder(PathVs, << File(PathVsb, sb) >>),
                                     Folder(PathVe, <<>>) >>),
                    File(PathN, 1) >>)

VaultOne(sa) == Folder(PathRoot, << Folder(PathV, << File(PathVa, sa) >>), File(PathN, 1) >>)

VaultEmpty == Folder(PathRoot, << Folder(PathV, << Folder(PathVe, <<>>) >>), File(PathN, 1) >>)

\* The vaults of Spec: two files in a tree, or none.
Vaults == {VaultWith(1, 2), VaultEmpty}

\* The vaults of SpecUpload: one file of every size up to MaxSize.
SizedVaults == {VaultOne(s) : s \in 0..MaxSize}

LocalFolders == {PathV, PathN, PathX}

\* The names of the children of a folder, by position.
Names == <<"a", "b", "c", "d", "e", "f", "g", "h">>

\* The path of child i of the folder dir: "dir/name", or "name" under the root.
childPath(dir, i) == (IF dir = PathRoot THEN <<>> ELSE dir \o <<"/">>) \o <<Names[i]>>

\* TreesAt(path, n): the files and folders at path with at most n nodes;
\* ForestsAt(dir, i, n): the child lists of dir from position i, at most n nodes.
RECURSIVE TreesAt(_, _), ForestsAt(_, _, _)
TreesAt(path, n) ==
    {File(path, 1)} \cup {Folder(path, kids) : kids \in ForestsAt(path, 1, n - 1)}

ForestsAt(dir, i, n) ==
    {<<>>} \cup UNION {UNION {{<<t>> \o rest : rest \in ForestsAt(dir, i + 1, n - k)} :
                                t \in TreesAt(childPath(dir, i), k)} : k \in 1..n}

\* The vaults of SpecWalk: every tree of at most MaxNodes nodes under V.
WalkVaults ==
    {Folder(PathRoot, << Folder(PathV, kids), File(PathN, 1) >>) :
        kids \in ForestsAt(PathV, 1, MaxNodes)}

VARIABLES
    vault,        \* app.vault: the tree of TFolder / TFile
    chunkSize,    \* CHUNK_SIZE
    settings,     \* plugin.settings, the object every OneDriveClient shares
    now,          \* Date.now()
    status,       \* the text of the status bar item, after "OneDrive: "
    pass,         \* pass[p]: the frame of syncVault invocation p
    up,           \* up[p]: the uploadFile call of pass p, running or last
    tok,          \* tok[p]: the getAccessToken call of pass p, running or last
    notice,       \* notice[p]: the last Notice pass p showed
    saved,        \* the settings last written by saveData
    remote        \* the items of the drive: a set of [path, size]

vars == <<vault, chunkSize, settings, now, status, pass, up, tok, notice, saved, remote>>

\* ------------------------------------------------------------ pure helpers
NoFile == [kind |-> "none", path |-> <<>>, size |-> 0, children |-> <<>>]

\* app.vault.getAbstractFileByPath: the node of the vault with this path, or null.
RECURSIVE findIn(_, _, _)
findIn(children, i, path) ==
    IF i > Len(children) THEN NoFile
    ELSE LET child == children[i]
             below == IF child.kind = "folder" THEN findIn(child.children, 1, path) ELSE NoFile
         IN  IF child.path = path THEN child
             ELSE IF below.kind # "none" THEN below
             ELSE findIn(children, i + 1, path)

\* The vault keeps its root folder under the path "/".
getAbstractFileByPath(path) ==
    IF path = vault.path THEN vault ELSE findIn(vault.children, 1, path)

\* Variant of isTFolder: any node that exists passes, a file too.
isTFolder_anyNode(node) == node.kind # "none"

\* localFolder && localFolder instanceof TFolder
isTFolder(node) == node.kind = "folder"

\* Variant of recurse: the folders among the children are not entered.
RECURSIVE recurse_shallow(_, _)
recurse_shallow(f, i) ==
    IF i > Len(f.children) THEN <<>>
    ELSE (IF f.children[i].kind = "file" THEN <<f.children[i]>> ELSE <<>>)
            \o recurse_shallow(f, i + 1)

\* recurse(f) of getAllFilesInFolder, from child i of f on: files are pushed in
\* traversal order, folders are entered.
RECURSIVE recurse(_, _)
recurse(f, i) ==
    IF i > Len(f.children) THEN <<>>
    ELSE LET child == f.children[i]
         IN  (IF child.kind = "file" THEN <<child>>
              ELSE IF child.kind = "folder" THEN recurse(child, 1)
              ELSE <<>>) \o recurse(f, i + 1)

getAllFilesInFolder(folderPath) ==
    LET folder == getAbstractFileByPath(folderPath)
    IN  IF isTFolder(folder) THEN recurse(folder, 1) ELSE <<>>

\* String.prototype.substring(start)
substring(str, start) == SubSeq(str, start + 1, Len(str))

\* file.path.substring(localFolderPath.length + 1)
relativePathOf(filePath, localFolderPath) == substring(filePath, Len(localFolderPath) + 1)

\* Variant of isAuthenticatedWith: the refresh token is not looked at.
isAuthenticatedWith_accessOnly(s) == s.accessToken # ""

\* !!settings.accessToken && !!settings.refreshToken
isAuthenticatedWith(s) == s.accessToken # "" /\ s.refreshToken # ""

isAuthenticated == isAuthenticatedWith(settings)

\* Variant of tokenIsValid: the expiry instant is not looked at.
tokenIsValid_ignoresExpiry(s, t) == s.accessToken # ""

\* getAccessToken's test for the cached token
tokenIsValid(s, t) == s.accessToken # "" /\ s.accessTokenExpiresAt > t

\* result.refresh_token ?? ""
refreshTokenOr(result) == IF result.refresh_token = NONE THEN "" ELSE result.refresh_token

\* (result.expires_in || 3600) * 1000
expiresInOf(result) == IF result.expires_in = 0 THEN DefaultExpires ELSE result.expires_in

\* The credential getAccessToken stores after a successful refresh at time t.
refreshedSettings(s, result, t) ==
    [s EXCEPT !.accessToken = result.access_token,
              !.refreshToken = refreshTokenOr(result),
              !.accessTokenExpiresAt = t + expiresInOf(result) - SafetyMargin]

\* Variant of chunkEndOf: the end of the chunk is not capped by the file size.
chunkEndOf_uncapped(offset, fileSize) == offset + chunkSize

\* Math.min(offset + CHUNK_SIZE, fileSize)
chunkEndOf(offset, fileSize) == Min(offset + chunkSize, fileSize)

\* The Content-Range header of the chunk that starts at offset.
contentRange(offset, fileSize) ==
    [first |-> offset, last |-> chunkEndOf(offset, fileSize) - 1, total |-> fileSize]

\* while (offset < fileSize)
moreChunks(offset, fileSize) == offset < fileSize

\* if (rjson.id) finalItem = rjson
finalItemAfter(finalItem, rjson, n) == IF rjson.id THEN n ELSE finalItem

\* fullPath of uploadFile: "/drive/root:" [+ "/" + remoteBaseFolder] + "/" +
\* relativePath + ":/createUploadSession".  encodeURI leaves the characters of the
\* model's paths as they are.
fullPathOf(remoteBaseFolder, relativePath) ==
    <<"/drive/root:">>
        \o (IF remoteBaseFolder # <<>> THEN <<"/">> \o remoteBaseFolder ELSE <<>>)
        \o <<"/">> \o relativePath \o <<":/createUploadSession">>

\* Variant of putItem: conflictBehavior "rename", an item of that path is kept
\* and the new one gets another name.
putItem_rename(store, path, size) ==
    IF \E i \in store : i.path = path
    THEN store \cup {[path |-> path \o <<" 1">>, size |-> size]}
    ELSE store \cup {[path |-> path, size |-> size]}

\* The drive completing an upload session created with
\* "@microsoft.graph.conflictBehavior": "replace": the item of that path is replaced.
putItem(store, path, size) ==
    {i \in store : i.path # path} \cup {[path |-> path, size |-> size]}

\* The drive on answering a chunk PUT: an answer with an id is the created item.
driveAfter(store, resp, u) ==
    IF resp.kind = "resp" /\ resp.ok /\ resp.id
    THEN putItem(store, u.fullPath, u.fileSize)
    ELSE store

\* ------------------------------------------------------------ the answers
\* Answers of the token endpoint to a refresh: the request throws, the body holds
\* an error, or the body is an AuthSuccessResponse.
RefreshAnswers ==
    {[kind |-> "throw", access_token |-> "", refresh_token |-> NONE, expires_in |-> 0],
     [kind |-> "error", access_token |-> "", refresh_token |-> NONE, expires_in |-> 0]}
    \cup {[kind |-> "ok", access_token |-> "a2", refresh_token |-> r, expires_in |-> e] :
            r \in {NONE, "r2"}, e \in {0, 3}}

\* Answers to createUploadSession: fetch rejects, or a response.
SessionAnswers ==
    {[kind |-> "throw", ok |-> FALSE, uploadUrl |-> ""],
     [kind |-> "resp", ok |-> FALSE, uploadUrl |-> ""],
     [kind |-> "resp", ok |-> TRUE, uploadUrl |-> ""],
     [kind |-> "resp", ok |-> TRUE, uploadUrl |-> "u"]}

\* Answers to a chunk PUT: fetch rejects, or a response whose body has an id or not.
ChunkAnswers ==
    {[kind |-> "throw", ok |-> FALSE, id |-> FALSE],
     [kind |-> "resp", ok |-> FALSE, id |-> FALSE],
     [kind |-> "resp", ok |-> TRUE, id |-> FALSE],
     [kind |-> "resp", ok |-> TRUE, id |-> TRUE]}

\* ------------------------------------------------------------------- state
DEFAULT_SETTINGS ==
    [accessToken |-> "", refreshToken |-> "", accessTokenExpiresAt |-> 0,
     localVaultFolder |-> PathV, remoteBaseFolder |-> <<>>]

\* What loadSettings can find stored: nothing, or the tokens of an earlier session.
StoredSettings ==
    {DEFAULT_SETTINGS}
    \cup {[DEFAULT_SETTINGS EXCEPT !.accessToken = "a1", !.refreshToken = "r1",
                                  !.accessTokenExpiresAt = e, !.localVaultFolder = f] :
            e \in {0, 1}, f \in LocalFolders}

\* new Notice(text); n is the file count of "Sync completado. Subidos n archivos."
Notice(text, n) == [text |-> text, n |-> n]

\* A syncVault call: its locals, the uploadFile calls that returned to it, and
\* the remoteBaseFolder of the settings it was handed when it built its client.
IdlePass ==
    [pc |-> "idle", localFolderPath |-> <<>>, allFiles |-> <<>>, idx |-> 0, uploaded |-> 0,
     remoteAtStart |-> <<>>]

NoAnswer == [kind |-> "none", ok |-> FALSE, uploadUrl |-> ""]

\* An uploadFile call: its locals (fileSize, offset, finalItem: 0 for null, n for
\* the body of the n-th chunk answer), and what went over the wire: the session
\* POSTs and their answer, the Content-Range of every chunk PUT, every answer.
NoUpload ==
    [state |-> "none", relativePath |-> <<>>, fullPath |-> <<>>, fileSize |-> 0, offset |-> 0,
     finalItem |-> 0, sessions |-> 0, session |-> NoAnswer, puts |-> <<>>,
     resps |-> <<>>, error |-> ""]

\* The credential fields of the settings.
Credential(s) ==
    [accessToken |-> s.accessToken, refreshToken |-> s.refreshToken,
     accessTokenExpiresAt |-> s.accessTokenExpiresAt]

\* A getAccessToken call: the credential and Date.now() it found, the refresh
\* requests it sent, the kind of answer it got, and the token it returned.
NoTokenCall ==
    [state |-> "none", requests |-> 0, answer |-> "none", token |-> "",
     before |-> Credential(DEFAULT_SETTINGS), at |-> 0]

InitWith(vaults, chunks, stored) ==
    /\ vault \in vaults
    /\ chunkSize \in chunks
    /\ settings \in stored
    /\ now = 0
    /\ status = "Idle"
    /\ pass = [p \in Passes |-> IdlePass]
    /\ up = [p \in Passes |-> NoUpload]
    /\ tok = [p \in Passes |-> NoTokenCall]
    /\ notice = [p \in Passes |-> Notice("", 0)]
    /\ saved = settings
    /\ remote = {}

\* The plugin after onload.
Init == InitWith(Vaults, {1, 2}, StoredSettings)

\* ----------------------------------------------------------------- actions
\* Variant of Catch: the error is swallowed without touching the status bar.
Catch_silent(p) ==
    /\ pass' = [pass EXCEPT ![p].pc = "done"]
    /\ UNCHANGED <<status, notice>>

\* The catch block of syncVault.
Catch(p) ==
    /\ status' = "Error"
    /\ notice' = [notice EXCEPT ![p] = Notice("Error al sincronizar con OneDrive", 0)]
    /\ pass' = [pass EXCEPT ![p].pc = "done"]

\* uploadFile throws err: the call ends, and syncVault's catch block runs.
Throw(p, u, err) ==
    /\ up' = [up EXCEPT ![p] = [u EXCEPT !.state = "failed", !.error = err]]
    /\ Catch(p)

\* uploadFile, from the token on: the createUploadSession POST goes out.
PostSession(p, u) ==
    /\ up' = [up EXCEPT ![p] = [u EXCEPT !.state = "session", !.sessions = u.sessions + 1,
                                         !.fullPath = fullPathOf(settings.remoteBaseFolder,
                                                                 u.relativePath)]]
    /\ pass' = [pass EXCEPT ![p].pc = "session"]
    /\ UNCHANGED <<status, notice>>

\* Variant of noRefreshToken: the refresh request is sent whatever the token.
noRefreshToken_never(s) == FALSE

\* refreshAccessToken: if (!config.refreshToken) throw
noRefreshToken(s) == s.refreshToken = ""

\* uploadFile(relativePath, content) up to its first request: getAccessToken
\* returns the cached token, or throws for want of a refresh token, or sends the
\* refresh request.
uploadFile(p, relativePath, size) ==
    LET u == [NoUpload EXCEPT !.state = "token", !.relativePath = relativePath, !.fileSize = size]
        t == [NoTokenCall EXCEPT !.before = Credential(settings), !.at = now]
    IN  IF tokenIsValid(settings, now)
        THEN /\ tok' = [tok EXCEPT ![p] = [t EXCEPT !.state = "cached", !.token = settings.accessToken]]
             /\ PostSession(p, u)
        ELSE IF noRefreshToken(settings)
        THEN /\ tok' = [tok EXCEPT ![p] = [t EXCEPT !.state = "error"]]
             /\ Throw(p, u, "No refreshToken")
        ELSE /\ tok' = [tok EXCEPT ![p] = [t EXCEPT !.state = "pending", !.requests = 1]]
             /\ up' = [up EXCEPT ![p] = u]
             /\ pass' = [pass EXCEPT ![p].pc = "refresh"]
             /\ UNCHANGED <<status, notice>>

\* syncVault(): the guard, the status, the folder test, the enumeration, and the
\* loop up to the first readBinary.
Sync(p) ==
    /\ pass[p].pc = "idle"
    /\ UNCHANGED <<vault, chunkSize, settings, now, up, tok, saved, remote>>
    /\ IF ~isAuthenticated
       THEN /\ notice' = [notice EXCEPT ![p] = Notice("No estas autenticado en OneDrive", 0)]
            /\ pass' = [pass EXCEPT ![p].pc = "done"]
            /\ UNCHANGED status
       ELSE LET localFolderPath == settings.localVaultFolder
                localFolder == getAbstractFileByPath(localFolderPath)
                allFiles == getAllFilesInFolder(localFolderPath)
                frame == [pc |-> "done", localFolderPath |-> localFolderPath,
                          allFiles |-> <<>>, idx |-> 0, uploaded |-> 0,
                          remoteAtStart |-> settings.remoteBaseFolder]
            IN  IF ~isTFolder(localFolder)
                THEN /\ notice' = [notice EXCEPT ![p] = Notice("Carpeta local no existe", 0)]
                     /\ status' = "Error: no local folder"
                     /\ pass' = [pass EXCEPT ![p] = frame]
                ELSE IF Len(allFiles) = 0
                THEN /\ notice' = [notice EXCEPT ![p] = Notice("Sync completado", Len(allFiles))]
                     /\ status' = "Idle"
                     /\ pass' = [pass EXCEPT ![p] = frame]
                ELSE /\ status' = "Syncing..."
                     /\ pass' = [pass EXCEPT ![p] = [frame EXCEPT !.pc = "read",
                                                              !.allFiles = allFiles, !.idx = 1]]
                     /\ UNCHANGED notice

\* readBinary answers: the bytes of the file, or a rejection.
ReadBinaryReturn(p, ok) ==
    /\ pass[p].pc = "read"
    /\ UNCHANGED <<vault, chunkSize, settings, now, saved, remote>>
    /\ IF ~ok
       THEN Catch(p) /\ UNCHANGED <<up, tok>>
       ELSE LET file == pass[p].allFiles[pass[p].idx]
            IN  uploadFile(p, relativePathOf(file.path, pass[p].localFolderPath), file.size)

\* Variant of NextFile: the loop does not move on, the same file is read again.
NextFile_sameFile(p) ==
    /\ pass' = [pass EXCEPT ![p].pc = "read"]
    /\ UNCHANGED <<status, notice>>

\* Variant of NextFile: the loop ends after the first file that was uploaded.
NextFile_finishEarly(p) ==
    /\ pass' = [pass EXCEPT ![p].pc = "done", ![p].uploaded = pass[p].uploaded + 1]
    /\ notice' = [notice EXCEPT ![p] = Notice("Sync completado", Len(pass[p].allFiles))]
    /\ status' = "Idle"

\* syncVault after uploadFile returned its item: the next file's readBinary, or
\* the end of the loop.
NextFile(p) ==
    IF pass[p].idx < Len(pass[p].allFiles)
    THEN /\ pass' = [pass EXCEPT ![p].pc = "read", ![p].idx = pass[p].idx + 1,
                                 ![p].uploaded = pass[p].uploaded + 1]
         /\ UNCHANGED <<status, notice>>
    ELSE /\ pass' = [pass EXCEPT ![p].pc = "done", ![p].uploaded = pass[p].uploaded + 1]
         /\ notice' = [notice EXCEPT ![p] = Notice("Sync completado", Len(pass[p].allFiles))]
         /\ status' = "Idle"

\* uploadFile's loop test with offset and finalItem as in u: the next chunk PUT
\* goes out, or the loop is over and the call throws or returns finalItem.
ChunkLoop(p, u) ==
    IF moreChunks(u.offset, u.fileSize)
    THEN /\ up' = [up EXCEPT ![p] = [u EXCEPT !.state = "uploading",
                                              !.puts = Append(u.puts, contentRange(u.offset, u.fileSize))]]
         /\ pass' = [pass EXCEPT ![p].pc = "chunk"]
         /\ UNCHANGED <<status, notice>>
    ELSE IF u.finalItem = 0
    THEN Throw(p, u, "No se obtuvo DriveItem final tras la subida")
    ELSE /\ up' = [up EXCEPT ![p] = [u EXCEPT !.state = "completed"]]
         /\ NextFile(p)

\* Variant of hasError: an error body is taken for a success.
hasError_never(result) == FALSE

\* "error" in result
hasError(result) == result.kind = "error"

\* The token endpoint answers the refresh request of getAccessToken.
RefreshReturn(p, result) ==
    /\ pass[p].pc = "refresh"
    /\ UNCHANGED <<vault, chunkSize, now, saved, remote>>
    /\ IF result.kind = "throw"
       THEN /\ tok' = [tok EXCEPT ![p].state = "error", ![p].answer = result.kind]
            /\ UNCHANGED settings
            /\ Throw(p, up[p], "request failed")
       ELSE IF hasError(result)
       THEN /\ tok' = [tok EXCEPT ![p].state = "error", ![p].answer = result.kind]
            /\ UNCHANGED settings
            /\ Throw(p, up[p], "Refresh token error")
       ELSE /\ settings' = refreshedSettings(settings, result, now)
            /\ tok' = [tok EXCEPT ![p].state = "refreshed", ![p].answer = result.kind,
                                   ![p].token = settings'.accessToken]
            /\ PostSession(p, up[p])

\* !sessionResp.ok, or no uploadUrl in the body
sessionFailed(resp) == resp.kind = "throw" \/ ~resp.ok \/ resp.uploadUrl = ""

\* createUploadSession answers.
SessionReturn(p, resp) ==
    /\ pass[p].pc = "session"
    /\ UNCHANGED <<vault, chunkSize, settings, now, tok, saved, remote>>
    /\ IF sessionFailed(resp)
       THEN Throw(p, [up[p] EXCEPT !.session = resp], IF resp.kind = "throw" THEN "fetch failed"
                            ELSE IF ~resp.ok THEN "Error al crear UploadSession"
                            ELSE "No se obtuvo uploadUrl de la sesion")
       ELSE ChunkLoop(p, [up[p] EXCEPT !.session = resp, !.offset = 0, !.finalItem = 0])

\* Variant of chunkFailed: only a rejected fetch counts, the status is not looked at.
chunkFailed_onlyThrow(resp) == resp.kind = "throw"

\* !resp.ok
chunkFailed(resp) == resp.kind = "throw" \/ ~resp.ok

\* A chunk PUT answers.
ChunkReturn(p, resp) ==
    /\ pass[p].pc = "chunk"
    /\ UNCHANGED <<vault, chunkSize, settings, now, tok, saved>>
    /\ remote' = driveAfter(remote, resp, up[p])
    /\ LET u == [up[p] EXCEPT !.resps = Append(up[p].resps, resp)]
       IN  IF chunkFailed(resp)
           THEN Throw(p, u, IF resp.kind = "throw" THEN "fetch failed" ELSE "Error subiendo chunk")
           ELSE ChunkLoop(p, [u EXCEPT !.finalItem = finalItemAfter(u.finalItem, resp, Len(u.resps)),
                                       !.offset = chunkEndOf(u.offset, u.fileSize)])

\* Time passes.
Tick ==
    /\ now < MaxTime
    /\ now' = now + 1
    /\ UNCHANGED <<vault, chunkSize, settings, status, pass, up, tok, notice, saved, remote>>

\* The "Desconectar" button of the settings tab, shown when authenticated.
Disconnect ==
    /\ isAuthenticated
    /\ settings' = [settings EXCEPT !.accessToken = "", !.refreshToken = "",
                                    !.accessTokenExpiresAt = 0]
    /\ saved' = settings'
    /\ UNCHANGED <<vault, chunkSize, now, status, pass, up, tok, notice, remote>>

Next ==
    \/ \E p \in Passes : Sync(p)
    \/ \E p \in Passes, ok \in BOOLEAN : ReadBinaryReturn(p, ok)
    \/ \E p \in Passes, result \in RefreshAnswers : RefreshReturn(p, result)
    \/ \E p \in Passes, resp \in SessionAnswers : SessionReturn(p, resp)
    \/ \E p \in Passes, resp \in ChunkAnswers : ChunkReturn(p, resp)
    \/ Tick
    \/ Disconnect

Spec == Init /\ [][Next]_vars

\* One syncVault pass at a time, over one file of every size.
InitUpload ==
    InitWith(SizedVaults, 1..MaxChunk, {s \in StoredSettings : s.localVaultFolder = PathV})

NextUpload ==
    \/ Sync(1)
    \/ \E ok \in BOOLEAN : ReadBinaryReturn(1, ok)
    \/ \E result \in RefreshAnswers : RefreshReturn(1, result)
    \/ \E resp \in SessionAnswers : SessionReturn(1, resp)
    \/ \E resp \in ChunkAnswers : ChunkReturn(1, resp)
    \/ Tick
    \/ Disconnect

SpecUpload == InitUpload /\ [][NextUpload]_vars

\* One syncVault pass over every small tree, the local root being the folder V
\* or the root of the vault.
InitWalk ==
    InitWith(WalkVaults, {1},
             {[DEFAULT_SETTINGS EXCEPT !.accessToken = "a1", !.refreshToken = "r1",
                                       !.accessTokenExpiresAt = 1, !.localVaultFolder = f] :
                 f \in {PathV, PathRoot}})

SpecWalk == InitWalk /\ [][NextUpload]_vars

\* The folders the user types into the two text fields of the settings tab.
LocalEdits  == {PathV, PathVs}
RemoteEdits == {<<>>, <<"R">>}

\* onChange of "Carpeta local": the setting is written and the settings are saved.
SetLocalFolder(val) ==
    /\ val # settings.localVaultFolder
    /\ settings' = [settings EXCEPT !.localVaultFolder = val]
    /\ saved' = settings'
    /\ UNCHANGED <<vault, chunkSize, now, status, pass, up, tok, notice, remote>>

\* onChange of "Carpeta remota en OneDrive".
SetRemoteFolder(val) ==
    /\ val # settings.remoteBaseFolder
    /\ settings' = [settings EXCEPT !.remoteBaseFolder = val]
    /\ saved' = settings'
    /\ UNCHANGED <<vault, chunkSize, now, status, pass, up, tok, notice, remote>>

\* One syncVault pass over two files while the settings tab is open.
InitEdit ==
    InitWith({VaultWith(1, 2)}, {1},
             {s \in StoredSettings : s.localVaultFolder = PathV /\ s.accessToken # ""})

NextEdit ==
    \/ NextUpload
    \/ \E val \in LocalEdits : SetLocalFolder(val)
    \/ \E val \in RemoteEdits : SetRemoteFolder(val)

SpecEdit == InitEdit /\ [][NextEdit]_vars

\* One syncVault pass over two files, the second of every size, where every read
\* and every request that is awaited gets its answer: the promise syncVault or
\* uploadFile awaits settles, and the code after the await runs.
InitLive ==
    InitWith({VaultWith(1, s) : s \in 0..MaxSize}, 1..MaxChunk,
             {s \in StoredSettings : s.localVaultFolder = PathV})

Answered ==
    /\ WF_vars(\E ok \in BOOLEAN : ReadBinaryReturn(1, ok))
    /\ WF_vars(\E result \in RefreshAnswers : RefreshReturn(1, result))
    /\ WF_vars(\E resp \in SessionAnswers : SessionReturn(1, resp))
    /\ WF_vars(\E resp \in ChunkAnswers : ChunkReturn(1, resp))

SpecLive == InitLive /\ [][NextUpload]_vars /\ Answered

\* ------------------------------------------------------------------ claims
\* What the claims read off an uploadFile call u.
SessionCreated(u) == u.session.kind = "resp" /\ u.session.ok /\ u.session.uploadUrl # ""
Is2xx(resp)       == resp.kind = "resp" /\ resp.ok
UploadEnded(u)    == u.state \in {"completed", "failed"}
\* The loop of u ran to its end: every chunk PUT was sent and answered 2xx.
AllChunksAccepted(u) ==
    /\ UploadEnded(u)
    /\ SessionCreated(u)
    /\ Len(u.resps) = Len(u.puts)
    /\ \A i \in 1..Len(u.resps) : Is2xx(u.resps[i])

CeilDiv(a, b) == (a + b - 1) \div b

InFlight(p) == pass[p].pc \in {"read", "refresh", "session", "chunk"}

\* C1: at most one syncVault pass is between its start and its end, in every
\* reachable state, whatever triggers overlap.
C1_AtMostOneActivePass == Cardinality({p \in Passes : InFlight(p)}) <= 1

\* C2: for a file of S >= 1 bytes and chunk size C >= 1, an upload whose chunk PUTs
\* were all answered 2xx has sent exactly ceil(S/C) PUTs; the first range starts at
\* 0, each next one starts where the previous ended plus 1, the last ends at S-1,
\* no range holds more than C bytes or fewer than 1, and every header declares
\* total S.  While the upload runs, the PUTs sent so far already form such a chain.
C2_ChunkRangesPartitionFile ==
    \A p \in Passes :
        LET u == up[p]
            n == Len(u.puts)
        IN  /\ \A i \in 1..n :
                /\ u.puts[i].first = (IF i = 1 THEN 0 ELSE u.puts[i - 1].last + 1)
                /\ u.puts[i].last - u.puts[i].first + 1 \in 1..chunkSize
                /\ u.puts[i].last <= u.fileSize - 1
                /\ u.puts[i].total = u.fileSize
            /\ (u.fileSize >= 1 /\ AllChunksAccepted(u)) =>
                /\ n = CeilDiv(u.fileSize, chunkSize)
                /\ u.puts[n].last = u.fileSize - 1

\* C2 witness: an upload of three or more chunks, the last one short, completed.
C2_Witness ==
    \E p \in Passes :
        /\ up[p].state = "completed"
        /\ Len(up[p].puts) >= 3
        /\ up[p].puts[Len(up[p].puts)].last - up[p].puts[Len(up[p].puts)].first + 1 < chunkSize

\* C3: for a file of size 0, once the upload session is created, exactly one
\* (empty-range) chunk request is issued and the upload does not fail.
C3_EmptyFileIssuesOneChunk ==
    \A p \in Passes :
        (up[p].fileSize = 0 /\ SessionCreated(up[p])) =>
            (Len(up[p].puts) = 1 /\ up[p].state # "failed")

\* What the claims read off the credential c and a getAccessToken call t.
Usable(c)        == c.accessToken # "" /\ c.refreshToken # ""
\* accessTokenExpiresAt is stored as expiry - margin, so "now >= expiry - margin"
\* is "now >= accessTokenExpiresAt".
ExpiredAtCall(t) == t.at >= t.before.accessTokenExpiresAt
NeedsRefresh(t)  == t.before.accessToken = "" \/ ExpiredAtCall(t)

\* C4, as stated: a getAccessToken call sends exactly one refresh request when
\* the cached access token is expired or inside the safety margin, and none
\* otherwise, returning the cached token unchanged.
C4_OneRefreshIffExpired ==
    \A p \in Passes :
        tok[p].state # "none" =>
            IF ExpiredAtCall(tok[p])
            THEN tok[p].requests = 1
            ELSE tok[p].requests = 0 /\ tok[p].state = "cached"
                    /\ tok[p].token = tok[p].before.accessToken

\* C4, amended: a getAccessToken call sends exactly one refresh request when the
\* cached access token is empty or expired (or inside the margin) and the stored
\* refresh token is not empty; it sends none and fails when the token needs a
\* refresh and the refresh token is empty; it sends none and returns the cached
\* access token unchanged otherwise.
C4_OneRefreshIffExpiredAndRefreshable ==
    \A p \in Passes :
        tok[p].state # "none" =>
            IF NeedsRefresh(tok[p])
            THEN IF tok[p].before.refreshToken # ""
                 THEN tok[p].requests = 1 /\ tok[p].state \in {"pending", "refreshed", "error"}
                 ELSE tok[p].requests = 0 /\ tok[p].state = "error"
            ELSE tok[p].requests = 0 /\ tok[p].state = "cached"
                    /\ tok[p].token = tok[p].before.accessToken

\* C4 witness: one call answered from the cache and another that sent a refresh.
C4_Witness ==
    \E p, q \in Passes :
        /\ tok[p].state = "cached" /\ tok[p].token = "a1"
        /\ tok[q].state = "refreshed" /\ tok[q].requests = 1

\* C5: a refresh answered with an `error` body leaves accessToken, refreshToken
\* and accessTokenExpiresAt as they were, ends the call in an error, and is not
\* retried: no request of the call or its pass is left in flight.
C5_ErrorRefreshKeepsCredential ==
    [][\A p \in Passes :
          (pass[p].pc = "refresh" /\ tok'[p].answer = "error") =>
              /\ Credential(settings') = Credential(settings)
              /\ tok'[p].state = "error"
              /\ tok'[p].requests = 1
              /\ up'[p].state = "failed"
              /\ pass'[p].pc = "done"
              /\ status' = "Error"]_vars

\* C5 witness: a refresh was answered with an error body while the credential was usable.
C5_Witness ==
    \E p \in Passes :
        tok[p].answer = "error" /\ pass[p].pc = "done" /\ Usable(settings)

\* C6: a successful refresh keeps an authenticated credential authenticated (when
\* the answer omits refresh_token, the stored one stays).
C6_RefreshKeepsAuthenticated ==
    [][\A p \in Passes :
          (pass[p].pc = "refresh" /\ tok'[p].answer = "ok" /\ Usable(settings)) =>
              Usable(settings')]_vars

\* C7: an upload returns an item only if the answer to its final range holds the
\* item identifier.
C7_SuccessOnlyIfFinalAnswerHasId ==
    \A p \in Passes :
        up[p].state = "completed" => up[p].resps[Len(up[p].resps)].id

\* C8: a failed session creation (non-2xx, or no uploadUrl) ends the upload in an
\* error with no chunk PUT sent and the session POST not repeated; a chunk PUT
\* answered non-2xx is the last request of its upload, which ends in an error.
C8_FailedIsTerminal ==
    \A p \in Passes :
        LET u == up[p]
        IN  /\ (u.session.kind = "resp" /\ ~SessionCreated(u)) =>
                (u.state = "failed" /\ u.puts = <<>> /\ u.sessions = 1)
            /\ \A i \in 1..Len(u.resps) :
                (u.resps[i].kind = "resp" /\ ~u.resps[i].ok) =>
                    /\ i = Len(u.resps)
                    /\ Len(u.puts) = i
                    /\ u.sessions = 1
                    /\ u.state = "failed"
                    /\ pass[p].pc = "done"

\* C8 witness: the second chunk PUT of an upload was answered non-2xx.
C8_Witness ==
    \E p \in Passes :
        /\ Len(up[p].resps) = 2
        /\ ~up[p].resps[2].ok /\ up[p].resps[2].kind = "resp"
        /\ Len(up[p].puts) < CeilDiv(up[p].fileSize, chunkSize)

\* C9: Sync() without a usable credential returns at once: no request is sent,
\* no file is read, no uploadFile or getAccessToken call is made, and the status
\* is left as it was.
C9_UnauthenticatedSyncDoesNothing ==
    [][\A p \in Passes :
          (pass[p].pc = "idle" /\ pass'[p].pc # "idle" /\ ~Usable(settings)) =>
              /\ pass'[p].pc = "done"
              /\ status' = status
              /\ up' = up /\ tok' = tok /\ settings' = settings]_vars

\* C9 witness: a trigger found no usable credential while the other pass was syncing.
C9_Witness ==
    \E p, q \in Passes :
        /\ notice[p].text = "No estas autenticado en OneDrive"
        /\ pass[p].pc = "done"
        /\ InFlight(q) /\ status = "Syncing..."

\* The configured local root is a file or is not in the vault.
RootIsNoDirectory == settings.localVaultFolder \in {PathN, PathX}

\* C10: when the local root does not exist or is no directory, an authenticated
\* Sync() sets the status to an Error value and ends: no file is read, no upload
\* is started.
C10_MissingRootAbortsWithError ==
    [][\A p \in Passes :
          (pass[p].pc = "idle" /\ pass'[p].pc # "idle" /\ Usable(settings) /\ RootIsNoDirectory) =>
              /\ status' = "Error: no local folder"
              /\ pass'[p].pc = "done"
              /\ up' = up /\ tok' = tok]_vars

\* C10 witness: a pass ended on a local root that is a file of the vault.
C10_Witness ==
    \E p \in Passes :
        /\ notice[p].text = "Carpeta local no existe"
        /\ pass[p].localFolderPath = PathN
        /\ status = "Error: no local folder"

\* C11: syncVault is the failure boundary: a pass that ends on a failed token
\* refresh, file read, session creation or chunk upload ends with the status
\* "Error" and the error notice; a pass ends with the status Idle only when its
\* last upload returned; a failed uploadFile call always ends its pass.
C11_FailuresBecomeErrorStatus ==
    [][\A p \in Passes :
          /\ (InFlight(p) /\ pass'[p].pc = "done") =>
                IF pass[p].pc = "chunk" /\ up'[p].state = "completed"
                THEN status' = "Idle"
                ELSE /\ status' = "Error"
                     /\ notice'[p].text = "Error al sincronizar con OneDrive"
          /\ (InFlight(p) /\ up'[p].state = "failed") =>
                (pass'[p].pc = "done" /\ status' = "Error")]_vars

\* C11 witness: a pass ended on a chunk PUT answered non-2xx, with the status Error.
C11_Witness ==
    \E p \in Passes :
        /\ pass[p].pc = "done"
        /\ up[p].error = "Error subiendo chunk"
        /\ status = "Error"

\* C12: after a per-file failure Sync() goes on with the remaining jobs: a pass
\* that ended has attempted every file it enumerated.
C12_PassAttemptsEveryFile ==
    \A p \in Passes :
        pass[p].pc = "done" => pass[p].idx = Len(pass[p].allFiles)

\* C17: in every upload 0 <= offset <= fileSize; the offset never decreases; a
\* chunk PUT answered 2xx advances it by exactly the bytes of that PUT, which is
\* the chunk size for every chunk but the last and up to fileSize for the last;
\* an answer that is not 2xx leaves it; at most one PUT is unanswered.
C17_OffsetAdvancesByBytesSent ==
    [][\A p \in Passes :
          LET u == up[p]
              v == up'[p]
          IN  /\ 0 <= v.offset /\ v.offset <= v.fileSize
              /\ Len(v.puts) - Len(v.resps) \in {0, 1}
              /\ v.offset >= u.offset \/ pass[p].pc = "read"
              /\ (pass[p].pc = "chunk" /\ v # u) =>
                    /\ v.offset >= u.offset
                    /\ Len(v.resps) = Len(u.resps) + 1
                    /\ IF Is2xx(v.resps[Len(v.resps)])
                       THEN /\ v.offset - u.offset
                                  = u.puts[Len(u.puts)].last - u.puts[Len(u.puts)].first + 1
                            /\ v.offset = Min(u.offset + chunkSize, u.fileSize)
                       ELSE v.offset = u.offset]_vars

\* C17 witness: an upload whose offset reached the file size in three or more
\* steps, the last one shorter than the chunk size.
C17_Witness ==
    \E p \in Passes :
        /\ up[p].offset = up[p].fileSize
        /\ Len(up[p].resps) >= 3
        /\ up[p].fileSize < Len(up[p].resps) * chunkSize

\* C18: once a chunk answer holding an item identifier is received, no further
\* chunk PUT is sent to that session.
C18_NoPutAfterIdentifier ==
    \A p \in Passes :
        \A i \in 1..Len(up[p].resps) :
            up[p].resps[i].id => Len(up[p].puts) = i

\* C19: a getAccessToken call that finds the cached token not valid and the
\* stored refresh token empty fails without a request to the token endpoint and
\* without changing the credential; its uploadFile call sends nothing.
C19_NoRefreshTokenFailsWithoutRequest ==
    [][\A p \in Passes :
          (/\ pass[p].pc = "read"
           /\ tok'[p] # tok[p]
           /\ settings.accessToken = "" \/ now >= settings.accessTokenExpiresAt
           /\ settings.refreshToken = "") =>
              /\ tok'[p].state = "error"
              /\ tok'[p].requests = 0
              /\ up'[p].state = "failed" /\ up'[p].sessions = 0 /\ up'[p].puts = <<>>
              /\ pass'[p].pc = "done"
              /\ settings' = settings]_vars

\* C19 witness: a call failed for want of a refresh token.
C19_Witness ==
    \E p \in Passes :
        /\ up[p].error = "No refreshToken"
        /\ tok[p].before.refreshToken = ""
        /\ tok[p].requests = 0

\* What the claims read off the vault: the nodes below a folder, and the folder
\* of a path.
RECURSIVE NodesUnder(_)
NodesUnder(n) ==
    UNION {{n.children[i]} \cup NodesUnder(n.children[i]) : i \in 1..Len(n.children)}

NodeAt(path) == CHOOSE n \in {vault} \cup NodesUnder(vault) : n.path = path

SyncCompleted(p) == pass[p].pc = "done" /\ notice[p].text = "Sync completado"

\* C13: idempotence: once a pass has ended successfully, with the vault as it
\* was, no step of another pass changes the set of remote items, the drive
\* holds one item per path, and another pass that ends successfully reports the
\* same file count.
C13_SecondSyncChangesNothing ==
    [][\A q \in Passes :
          SyncCompleted(q) =>
              /\ remote' = remote
              /\ \A i, j \in remote' : i.path = j.path => i = j
              /\ \A p \in Passes :
                    (pass'[p].pc = "done" /\ notice'[p].text = "Sync completado") =>
                        notice'[p].n = notice[q].n]_vars

\* C13 witness: both passes ended successfully over two files, two items remote.
C13_Witness ==
    /\ \A p \in Passes : SyncCompleted(p) /\ notice[p].n = 2
    /\ Cardinality(remote) = 2

\* C14: getAllFilesInFolder(root) holds every regular file below root exactly
\* once and no directory; it is empty when root holds no file at any depth.
C14_EnumeratesEveryFileOnce ==
    \A p \in Passes :
        pass[p].localFolderPath # <<>> =>
            LET files == pass[p].allFiles
                below == {n \in NodesUnder(NodeAt(pass[p].localFolderPath)) : n.kind = "file"}
            IN  /\ \A i \in 1..Len(files) : files[i].kind = "file"
                /\ {files[i] : i \in 1..Len(files)} = below
                /\ Len(files) = Cardinality(below)

\* C14 witness: a tree with an empty folder and a file two levels down, enumerated.
C14_Witness ==
    \E p \in Passes :
        /\ Len(pass[p].allFiles) >= 2
        /\ \E i \in 1..Len(pass[p].allFiles) : Len(pass[p].allFiles[i].path) >= 7
        /\ \E n \in NodesUnder(vault) : n.kind = "folder" /\ n.children = <<>>

\* C15: for every file a pass uploads, root + "/" + relativePath is the file's
\* local path, and relativePath is not empty and does not start with "/".
C15_RelativePathStripsRoot ==
    \A p \in Passes :
        up[p].state # "none" =>
            /\ up[p].relativePath # <<>>
            /\ up[p].relativePath[1] # "/"
            /\ pass[p].localFolderPath \o <<"/">> \o up[p].relativePath
                    = pass[p].allFiles[pass[p].idx].path

\* C16: when getAccessToken hands out a refreshed token, the persisted
\* credential equals the credential in memory.
C16_RefreshedCredentialIsPersisted ==
    [][\A p \in Passes :
          (pass[p].pc = "refresh" /\ tok'[p].state = "refreshed") =>
              Credential(saved') = Credential(settings')]_vars

\* C20: in a single pass of an authenticated Sync() over an existing root, the
\* status only goes Idle -> Syncing -> Idle or Error; it is Syncing whenever a
\* read or a request of the pass is awaited; a pass that ends with the status
\* Idle has had every enumerated file's upload return an item; and the count it
\* reports is the number of uploads that returned.
C20_StatusFollowsThePass ==
    [][\A p \in Passes :
          /\ pass'[p].pc \in {"read", "refresh", "session", "chunk"} => status' = "Syncing..."
          /\ status' # status =>
                <<status, status'>> \in {<<"Idle", "Syncing...">>, <<"Syncing...", "Idle">>,
                                         <<"Syncing...", "Error">>}
          /\ (pass'[p].pc = "done" /\ pass'[p].localFolderPath # <<>> /\ status' = "Idle") =>
                /\ notice'[p].text = "Sync completado"
                /\ pass'[p].uploaded
                      = Cardinality({n \in NodesUnder(NodeAt(pass'[p].localFolderPath)) :
                                        n.kind = "file"})
          /\ notice'[p].text = "Sync completado" =>
                (notice'[p].n = pass'[p].uploaded /\ status' = "Idle")]_vars

\* C20 witness: a pass over three files ended Idle, reporting three uploads.
C20_Witness ==
    \E p \in Passes :
        /\ SyncCompleted(p)
        /\ notice[p].n = 3 /\ pass[p].uploaded = 3
        /\ status = "Idle"

\* C21: termination: when every awaited read and request answers, every
\* uploadFile call that was started returns or fails, and every started pass
\* ends, with the status no longer "Syncing...".
C21_UploadsAndPassesEnd ==
    \A p \in Passes :
        /\ (up[p].state \in {"token", "session", "uploading"}) ~> UploadEnded(up[p])
        /\ InFlight(p) ~> (pass[p].pc = "done" /\ status # "Syncing...")

\* C21 witness: a pass ended after its second upload returned, three or more
\* chunk requests into it.
C21_Witness ==
    \E p \in Passes :
        /\ pass[p].pc = "done" /\ status # "Syncing..."
        /\ pass[p].idx = 2 /\ pass[p].uploaded = 2
        /\ up[p].state = "completed" /\ Len(up[p].puts) >= 3

\* What C22 reads off the settings: the credential as Desconectar leaves it.
Cleared(s) == s.accessToken = "" /\ s.refreshToken = "" /\ s.accessTokenExpiresAt = 0

\* C22: once the credential is cleared it stays cleared, and isAuthenticated()
\* stays false, whatever step of a pass or of a refresh in flight comes next
\* (no authorization-code exchange takes place in these behaviours).
C22_ClearedStaysCleared ==
    [][Cleared(settings) => (Cleared(settings') /\ ~Usable(settings'))]_vars

\* C23: whenever a syncVault pass has started and not yet ended, the status is
\* "Syncing...".
C23_SyncingWhileAPassRuns ==
    (\E p \in Passes : InFlight(p)) => status = "Syncing..."

\* C24: at most one refresh request to the token endpoint is in flight at any
\* time.
C24_AtMostOneRefreshInFlight ==
    Cardinality({p \in Passes : pass[p].pc = "refresh"}) <= 1

\* C25: every upload of a pass goes to the path made of the remote base folder
\* configured when the pass started and of the file's path relative to the
\* local root configured when the pass started.
C25_UploadsUseTheFoldersOfThePassStart ==
    \A p \in Passes :
        pass[p].pc \in {"session", "chunk"} =>
            up[p].fullPath
                = fullPathOf(pass[p].remoteAtStart,
                             relativePathOf(pass[p].allFiles[pass[p].idx].path,
                                            pass[p].localFolderPath))

====
